---- MODULE Spec2Model ----
(***************************************************************************)
(* A model of the Switch gamepad HID interface                             *)
(* (src/device/switch_gamepad.rs) and of the HID classification constants  *)
(* (src/hid_class/descriptor.rs).                                          *)
(*                                                                         *)
(* SwitchGamepadInterface owns a RawInterface and forwards every           *)
(* InterfaceClass operation to it.  RawInterface is defined in             *)
(* crate::interface::raw; its operators below (Raw_...) follow the         *)
(* operation table of the specification's Interface Engine section.        *)
(***************************************************************************)
EXTENDS Integers, Sequences, FiniteSets, TLC

\* ------------------------------------------------------------------ bounds
\* Report ids exercised are 0..MaxReportId.
MaxReportId == 1

\* ------------------------------------------------- hid_class/descriptor.rs
InterfaceProtocol == {"None", "Keyboard", "Mouse", "Joystick", "Gamepad", "Generic", "Vendor"}

InterfaceProtocolCode(p) ==
    CASE p = "None"     -> 0
      [] p = "Keyboard" -> 1
      [] p = "Mouse"    -> 2
      [] p = "Joystick" -> 4
      [] p = "Gamepad"  -> 5
      [] p = "Generic"  -> 6
      [] p = "Vendor"   -> 255

InterfaceSubClass == {"None", "Boot"}

InterfaceSubClassCode(s) == IF s = "None" THEN 0 ELSE 1

\* A derivation that forgets the None case.
InterfaceSubClass_from_AlwaysBoot(protocol) == "Boot"

\* impl From<InterfaceProtocol> for InterfaceSubClass
InterfaceSubClass_from(protocol) ==
    IF protocol = "None" THEN "None" ELSE "Boot"

HidProtocol == {"Boot", "Report"}

HidProtocolCode(p) == IF p = "Boot" THEN 0 ELSE 1

USB_CLASS_HID == 3

\* ------------------------------------------- device/switch_gamepad.rs 16-64
SWITCH_GAMEPAD_REPORT_DESCRIPTOR ==
    << 8, 1,     8, 5,     8, 1,
       8, 0,     8, 1,     8, 0,     8, 1,
       8, 1,     8, 16,    8, 9,     8, 1,     8, 16,    8, 2,
       8, 1,     8, 7,     16, 1, 59,
       8, 4,     8, 1,     8, 20,    8, 57,    8, 66,
       8, 0,     8, 1,     8, 1,
       16, 255, 255,       16, 255,
       8, 8,     8, 49,    8, 50,    8, 53,
       8, 8,     8, 4,     8, 2,
       16, 255, 0,         8, 32,    8, 1,     8, 2,
       16, 38, 33,         8, 8,     8, 2,
       0 >>

\* --------------------------------------------- SwitchGamepadReport (66-83)
\* #[packed_struct(endian = "lsb", size_bytes = "3")]
SizeBytes == 3

\* The #[packed_field] members in declaration order, with their widths in bytes.
FieldNames == <<"buttons", "hat", "padding", "lx", "ly", "rx", "ry">>

FieldWidth(f) == IF f = "buttons" THEN 2 ELSE 1

RECURSIVE FieldOffset(_)
\* Number of bytes the fields declared before field number i occupy.
FieldOffset(i) == IF i = 1 THEN 0 ELSE FieldOffset(i - 1) + FieldWidth(FieldNames[i - 1])

FieldsWidth == FieldOffset(Len(FieldNames)) + FieldWidth(FieldNames[Len(FieldNames)])

\* Values of the report type tried: the specification's example and its neighbours.
ButtonValues == {0, 65, 65535}
Reports ==
    [buttons : ButtonValues, hat : {0, 3}, padding : {0, 255},
     lx : {1, 128}, ly : {128}, rx : {127}, ry : {0, 255}]

\* Byte k (0 = least significant) of an unsigned integer field.
ByteOf(v, k) == (v \div (256 ^ k)) % 256

\* The fields laid out one after another, each least-significant byte first.
FieldBytes(r) ==
    << ByteOf(r.buttons, 0), ByteOf(r.buttons, 1), r.hat % 256, r.padding % 256,
       r.lx % 256, r.ly % 256, r.rx % 256, r.ry % 256 >>

PackErr == [ok |-> FALSE, val |-> <<>>]

\* What pack() can hand back.  The byte array is [u8; SizeBytes].  When the
\* fields need more than SizeBytes bytes the derive either rejects the value
\* (a packing error) or keeps the bytes that fall inside the array.
PackOutcomes(r) ==
    IF FieldsWidth <= SizeBytes
    THEN {[ok |-> TRUE, val |-> FieldBytes(r)]}
    ELSE {PackErr, [ok |-> TRUE, val |-> SubSeq(FieldBytes(r), 1, SizeBytes)]}

\* Values a field can come back with when its bytes lie outside the array.
UnreadableFill == {0, 255}

ReadByte(bytes, i) == IF i <= Len(bytes) THEN {bytes[i]} ELSE UnreadableFill

UnpackErr == [ok |-> FALSE, val |-> <<>>]

\* What unpack() can hand back for an array of SizeBytes bytes.
UnpackOutcomes(bytes) ==
    IF Len(bytes) # SizeBytes
    THEN {UnpackErr}
    ELSE (IF FieldsWidth <= SizeBytes THEN {} ELSE {UnpackErr}) \cup
         { [ok |-> TRUE,
            val |-> [buttons |-> b0 + 256 * b1, hat |-> h, padding |-> p,
                     lx |-> x1, ly |-> y1, rx |-> x2, ry |-> y2]] :
             <<b0, b1, h, p, x1, y1, x2, y2>> \in
                 ReadByte(bytes, 1) \X ReadByte(bytes, 2) \X ReadByte(bytes, 3) \X
                 ReadByte(bytes, 4) \X ReadByte(bytes, 5) \X ReadByte(bytes, 6) \X
                 ReadByte(bytes, 7) \X ReadByte(bytes, 8) }

\* ------------------------------------------------------ the interface state
VARIABLES
    protocol,   \* RawInterface: the current HidProtocol
    idle,       \* RawInterface: the idle rate table, report id -> 4 ms units
    held,       \* RawInterface: the report last handed over by set_report
    last,       \* the operation performed last, its arguments and its result
    prev        \* the operation performed before it

vars == <<protocol, idle, held, last, prev>>

ReportIds == 0..MaxReportId

\* default_config: RawInterfaceBuilder ... .idle_default(Milliseconds(10))
IdleDefaultMs == 10
\* default_config: .boot_device(InterfaceProtocol::Gamepad)
ConfigProtocol == "Gamepad"
\* default_config: .in_endpoint(UsbPacketSize::Bytes8, Milliseconds(1))
InPacketSize == 8

\* The idle table counts in units of 4 ms.
IdleUnitMs == 4
IdleDefault == IdleDefaultMs \div IdleUnitMs

\* A report id without an entry of its own.
NoEntry == -1

IdleValues == {0, IdleDefault, 255}

\* Payloads the host sends with set_report: one byte, two bytes, and one byte
\* more than the endpoint's packet size.  Buffers offered to get_report.
Payloads == { [i \in 1..n |-> 0] : n \in {1, 2, InPacketSize + 1} }
BufferLens == {1, InPacketSize}

\* ------------------------------------------------------------ RawInterface
Raw_reset_idle == [id \in ReportIds |-> IF id = 0 THEN IdleDefault ELSE NoEntry]

Raw_reset_protocol == "Report"

Raw_set_idle(table, report_id, value) == [table EXCEPT ![report_id] = value]

Raw_get_idle(table, report_id) ==
    IF table[report_id] # NoEntry THEN table[report_id] ELSE table[0]

Raw_set_protocol(current, mode) == mode

Raw_get_protocol(current) == current

UsbOk == [ok |-> TRUE, err |-> "", cause |-> ""]

UsbErr(e) == [ok |-> FALSE, err |-> e, cause |-> ""]

\* set_report: a payload longer than the engine's report buffer is an error.
Raw_set_report_result(data) ==
    IF Len(data) > InPacketSize THEN UsbErr("BufferOverflow") ELSE UsbOk

Raw_set_report_held(current, data) ==
    IF Len(data) > InPacketSize THEN current ELSE data

\* get_report into a buffer of buflen bytes: nothing held, or a buffer too
\* short for what is held, is an error.
Raw_get_report_result(current, buflen) ==
    IF current = <<>> THEN UsbErr("WouldBlock")
    ELSE IF Len(current) > buflen THEN UsbErr("BufferOverflow")
    ELSE UsbOk

\* The interrupt-in transport: a payload over the packet size cannot be
\* written; otherwise the endpoint takes it or is busy.
Raw_write_report_outcomes(data) ==
    IF Len(data) > InPacketSize THEN {"BufferOverflow"} ELSE {"Ok", "WouldBlock"}

\* The standard interface descriptor RawInterface writes.
Raw_write_descriptors ==
    [class    |-> USB_CLASS_HID,
     subclass |-> InterfaceSubClassCode(InterfaceSubClass_from(ConfigProtocol)),
     protocol |-> InterfaceProtocolCode(ConfigProtocol)]

\* UsbHidError::from(UsbError)
UsbHidError_from(e) == [ok |-> FALSE, err |-> "TransportError", cause |-> e]

SerializationError == [ok |-> FALSE, err |-> "SerializationError", cause |-> ""]

\* ------------------------------------------------------------------- Init
NoCall == [op |-> "new", id |-> 0, val |-> 0, mode |-> "Report"]

\* What prev keeps of an operation: its name and the arguments of the setters.
Call(l) == [op |-> l.op, id |-> l.id, val |-> l.val, mode |-> l.mode]

\* WrappedInterface::new on a freshly built RawInterface.
Init ==
    /\ protocol = Raw_reset_protocol
    /\ idle = Raw_reset_idle
    /\ held = <<>>
    /\ last = NoCall
    /\ prev = NoCall

Done(op, report_id, value, mode, ret) ==
    /\ last' = [op |-> op, id |-> report_id, val |-> value, mode |-> mode, ret |-> ret]
    /\ prev' = Call(last)

\* --------------------------------- impl InterfaceClass (delegate!, 117-134)
\* A forwarding that never reaches the inner interface.
reset_dropped ==
    /\ UNCHANGED <<protocol, idle, held>>
    /\ Done("reset", 0, 0, "Report", UsbOk)

reset ==
    /\ protocol' = Raw_reset_protocol
    /\ idle' = Raw_reset_idle
    /\ UNCHANGED held
    /\ Done("reset", 0, 0, "Report", UsbOk)

set_report(data) ==
    /\ held' = Raw_set_report_held(held, data)
    /\ UNCHANGED <<protocol, idle>>
    /\ Done("set_report", 0, Len(data), "Report", Raw_set_report_result(data))

get_report(buflen) ==
    /\ UNCHANGED <<protocol, idle, held>>
    /\ Done("get_report", 0, buflen, "Report", Raw_get_report_result(held, buflen))

\* A forwarding that never reaches the inner interface.
set_idle_dropped(report_id, value) ==
    /\ UNCHANGED <<protocol, idle, held>>
    /\ Done("set_idle", report_id, value, "Report", UsbOk)

\* The call lands on the neighbouring forwarded method, set_protocol.
set_idle_as_protocol(report_id, value) ==
    /\ protocol' = IF value = HidProtocolCode("Report") THEN "Report" ELSE "Boot"
    /\ UNCHANGED <<idle, held>>
    /\ Done("set_idle", report_id, value, "Report", UsbOk)

set_idle(report_id, value) ==
    /\ idle' = Raw_set_idle(idle, report_id, value)
    /\ UNCHANGED <<protocol, held>>
    /\ Done("set_idle", report_id, value, "Report", UsbOk)

\* A getter answering with the configured default instead of the table.
get_idle_default(report_id) ==
    /\ UNCHANGED <<protocol, idle, held>>
    /\ Done("get_idle", report_id, 0, "Report", IdleDefault)

get_idle(report_id) ==
    /\ UNCHANGED <<protocol, idle, held>>
    /\ Done("get_idle", report_id, 0, "Report", Raw_get_idle(idle, report_id))

\* A forwarding that never reaches the inner interface.
set_protocol_dropped(mode) ==
    /\ UNCHANGED <<protocol, idle, held>>
    /\ Done("set_protocol", 0, 0, mode, UsbOk)

set_protocol(mode) ==
    /\ protocol' = Raw_set_protocol(protocol, mode)
    /\ UNCHANGED <<idle, held>>
    /\ Done("set_protocol", 0, 0, mode, UsbOk)

get_protocol ==
    /\ UNCHANGED <<protocol, idle, held>>
    /\ Done("get_protocol", 0, 0, "Report", Raw_get_protocol(protocol))

report_descriptor ==
    /\ UNCHANGED <<protocol, idle, held>>
    /\ Done("report_descriptor", 0, 0, "Report",
            [ok |-> TRUE, err |-> "", cause |-> "", bytes |-> SWITCH_GAMEPAD_REPORT_DESCRIPTOR])

write_descriptors ==
    /\ UNCHANGED <<protocol, idle, held>>
    /\ Done("write_descriptors", 0, 0, "Report",
            [ok |-> TRUE, err |-> "", cause |-> "", interface |-> Raw_write_descriptors])

\* ------------------------------------ SwitchGamepadInterface::write_report
WriteResult(result, report, packed, attempts, transport) ==
    [ok |-> result.ok, err |-> result.err, cause |-> result.cause,
     report |-> report, packed |-> packed, attempts |-> attempts,
     transport |-> transport]

\* The transport's answer is thrown away and success reported.
write_report_swallow(report) ==
    /\ UNCHANGED <<protocol, idle, held>>
    /\ \E p \in PackOutcomes(report) :
          \/ /\ ~p.ok
             /\ Done("write_report", 0, 0, "Report",
                     WriteResult(SerializationError, report, p, 0, "none"))
          \/ /\ p.ok
             /\ \E t \in Raw_write_report_outcomes(p.val) :
                   Done("write_report", 0, 0, "Report",
                        WriteResult(UsbOk, report, p, 1, t))

write_report(report) ==
    /\ UNCHANGED <<protocol, idle, held>>
    /\ \E p \in PackOutcomes(report) :
          \/ /\ ~p.ok
             /\ Done("write_report", 0, 0, "Report",
                     WriteResult(SerializationError, report, p, 0, "none"))
          \/ /\ p.ok
             /\ \E t \in Raw_write_report_outcomes(p.val) :
                   Done("write_report", 0, 0, "Report",
                        WriteResult(IF t = "Ok" THEN UsbOk ELSE UsbHidError_from(t),
                                    report, p, 1, t))

\* -------------------------------------------------------- pure operations
\* report.pack()
pack(report) ==
    /\ UNCHANGED <<protocol, idle, held>>
    /\ \E p \in PackOutcomes(report) :
          Done("pack", 0, 0, "Report", [report |-> report, packed |-> p])

\* SwitchGamepadReport::unpack(&report.pack()?)
unpack_pack(report) ==
    /\ UNCHANGED <<protocol, idle, held>>
    /\ \E p \in PackOutcomes(report) :
          \/ /\ ~p.ok
             /\ Done("unpack_pack", 0, 0, "Report",
                     [report |-> report, packed |-> p, unpacked |-> UnpackErr])
          \/ /\ p.ok
             /\ \E u \in UnpackOutcomes(p.val) :
                   Done("unpack_pack", 0, 0, "Report",
                        [report |-> report, packed |-> p, unpacked |-> u])

\* InterfaceSubClass::from(p)
subclass_from(p) ==
    /\ UNCHANGED <<protocol, idle, held>>
    /\ Done("subclass_from", 0, 0, "Report",
            [protocol |-> p, subclass |-> InterfaceSubClass_from(p)])

\* The reports the device writes while the interface is exercised.
WrittenReports == {r \in Reports : r.hat = 3 /\ r.padding = 0 /\ r.lx = 128 /\ r.ry = 0}

\* ------------------------------------------------------- specifications
Next ==
    \/ reset
    \/ \E data \in Payloads : set_report(data)
    \/ \E n \in BufferLens : get_report(n)
    \/ \E id \in ReportIds, v \in IdleValues : set_idle(id, v)
    \/ \E id \in ReportIds : get_idle(id)
    \/ \E m \in HidProtocol : set_protocol(m)
    \/ get_protocol
    \/ report_descriptor
    \/ write_descriptors
    \/ \E r \in WrittenReports : write_report(r)
    \/ \E p \in InterfaceProtocol : subclass_from(p)

Spec == Init /\ [][Next]_vars

\* The report codec on its own: every report value, packed and read back.
NextCodec ==
    \/ \E r \in Reports : pack(r)
    \/ \E r \in Reports : unpack_pack(r)

SpecCodec == Init /\ [][NextCodec]_vars

\* ------------------------------------------------- HID item encoding
\* A short item is a prefix byte (bits 0-1: size class, bits 2-3: type,
\* bits 4-7: tag) followed by 0, 1, 2 or 4 data bytes.
ItemDataLen(prefix) ==
    CASE prefix % 4 = 0 -> 0
      [] prefix % 4 = 1 -> 1
      [] prefix % 4 = 2 -> 2
      [] prefix % 4 = 3 -> 4

ItemType(prefix) == (prefix \div 4) % 4

ItemTag(prefix) == prefix \div 16

TypeMain == 0
TypeGlobal == 1
TagInput == 8
TagOutput == 9
TagCollection == 10
TagEndCollection == 12
TagReportSize == 7
TagReportCount == 9

IsItem(prefix, type, tag) == ItemType(prefix) = type /\ ItemTag(prefix) = tag

ParseStart ==
    [overrun |-> FALSE, at |-> 0, depth |-> 0, underflow |-> FALSE,
     size |-> FALSE, count |-> FALSE, bare |-> FALSE,
     items |-> 0, collections |-> 0, data_items |-> 0]

\* The parse state after one more item with this prefix.
ParseStep(st, prefix) ==
    [st EXCEPT
       !.items = @ + 1,
       !.size = @ \/ IsItem(prefix, TypeGlobal, TagReportSize),
       !.count = @ \/ IsItem(prefix, TypeGlobal, TagReportCount),
       !.collections = IF IsItem(prefix, TypeMain, TagCollection) THEN @ + 1 ELSE @,
       !.depth = IF IsItem(prefix, TypeMain, TagCollection) THEN @ + 1
                 ELSE IF IsItem(prefix, TypeMain, TagEndCollection) THEN @ - 1
                 ELSE @,
       !.underflow = @ \/ (IsItem(prefix, TypeMain, TagEndCollection) /\ st.depth = 0),
       !.data_items = IF IsItem(prefix, TypeMain, TagInput) \/ IsItem(prefix, TypeMain, TagOutput)
                      THEN @ + 1 ELSE @,
       !.bare = @ \/ ( /\ IsItem(prefix, TypeMain, TagInput) \/ IsItem(prefix, TypeMain, TagOutput)
                       /\ ~(st.size /\ st.count) )]

RECURSIVE ParseItems(_, _, _)
\* Reads d item by item from position pos; stops at the end of d or at an
\* item whose data bytes run past it.
ParseItems(d, pos, st) ==
    IF pos > Len(d) THEN st
    ELSE IF pos + ItemDataLen(d[pos]) > Len(d)
         THEN [st EXCEPT !.overrun = TRUE, !.at = pos]
         ELSE ParseItems(d, pos + 1 + ItemDataLen(d[pos]), ParseStep(st, d[pos]))

WellFormed(d) ==
    LET r == ParseItems(d, 1, ParseStart)
    IN  /\ ~r.overrun
        /\ ~r.underflow
        /\ r.depth = 0
        /\ ~r.bare

\* ------------------------------------------------------------------ claims

\* C1: after reset(), whatever was set before, get_idle(id) returns the
\* configured idle default for every report id and get_protocol() returns Report.
C1_ResetRestoresDefaults ==
    /\ last.op = "reset" =>
          /\ Raw_get_protocol(protocol) = "Report"
          /\ \A id \in ReportIds : Raw_get_idle(idle, id) = IdleDefault
    /\ (prev.op = "reset" /\ last.op = "get_idle") => last.ret = IdleDefault
    /\ (prev.op = "reset" /\ last.op = "get_protocol") => last.ret = "Report"

\* reset() right after an individual report id was given a rate of its own.
C1_Witness ==
    /\ last.op = "reset"
    /\ prev.op = "set_idle" /\ prev.id # 0 /\ prev.val # IdleDefault
    /\ idle[prev.id] = NoEntry
    /\ protocol = "Report"

\* C2: set_idle(id, v) immediately followed by get_idle(id) returns v, for
\* every report id (0 included) and every value.
C2_SetIdleThenGetIdle ==
    (prev.op = "set_idle" /\ last.op = "get_idle" /\ last.id = prev.id)
        => last.ret = prev.val

C2_Witness ==
    /\ prev.op = "set_idle" /\ prev.id # 0 /\ prev.val = 255
    /\ last.op = "get_idle" /\ last.id = prev.id /\ last.ret = 255

\* C3: set_protocol(mode) immediately followed by get_protocol() returns
\* mode, in every state, and set_protocol never fails.
C3_SetProtocolThenGetProtocol ==
    /\ last.op = "set_protocol" => (last.ret.ok /\ Raw_get_protocol(protocol) = last.mode)
    /\ (prev.op = "set_protocol" /\ last.op = "get_protocol") => last.ret = prev.mode

C3_Witness ==
    /\ prev.op = "set_protocol" /\ prev.mode = "Boot"
    /\ last.op = "get_protocol" /\ last.ret = "Boot"

\* C4: unpack(pack(value)) equals value, in every field, for every report
\* value whose fields are within their declared widths.
C4_RoundTrip ==
    last.op = "unpack_pack" =>
        (last.ret.unpacked.ok /\ last.ret.unpacked.val = last.ret.report)

\* The fields in declared order, each at its byte width, low byte first.
C5_DeclaredLayout(r) ==
    << r.buttons % 256, r.buttons \div 256, r.hat, r.padding, r.lx, r.ly, r.rx, r.ry >>

C5_Example ==
    [buttons |-> 65, hat |-> 3, padding |-> 0, lx |-> 128, ly |-> 128, rx |-> 127, ry |-> 0]

\* C5: pack lays the fields out in declared order, each at its exact byte
\* width and least-significant byte first, in a byte sequence as long as the
\* declared size; the example report packs to 0x41 0x00 0x03 followed by the
\* axis bytes 0x80 0x80 0x7F 0x00.
C5_PackLayout ==
    last.op = "pack" =>
        /\ last.ret.packed.ok
        /\ last.ret.packed.val = C5_DeclaredLayout(last.ret.report)
        /\ Len(last.ret.packed.val) = SizeBytes
        /\ last.ret.report = C5_Example =>
              /\ SubSeq(last.ret.packed.val, 1, 3) = <<65, 0, 3>>
              /\ SubSeq(last.ret.packed.val, Len(last.ret.packed.val) - 3,
                        Len(last.ret.packed.val)) = <<128, 128, 127, 0>>

\* C6: InterfaceSubClass::from(p) is None exactly when p is None and Boot
\* otherwise, and the gamepad interface (protocol Gamepad) advertises
\* subclass Boot, 0x01.
C6_SubClassDerivation ==
    /\ last.op = "subclass_from" =>
          /\ (last.ret.subclass = "None") <=> (last.ret.protocol = "None")
          /\ last.ret.protocol # "None" =>
                (last.ret.subclass = "Boot" /\ InterfaceSubClassCode(last.ret.subclass) = 1)
    /\ last.op = "write_descriptors" => last.ret.interface.subclass = 1

C6_Witness ==
    /\ prev.op = "subclass_from"
    /\ last.op = "write_descriptors"
    /\ last.ret.interface.protocol = 5
    /\ last.ret.interface.subclass = 1

\* C7: write_report succeeds only if packing and the transport write both
\* succeeded; a packing failure gives SerializationError with no transport
\* write; a transport failure is returned as an error; the transport write is
\* attempted at most once per call.
C7_WriteReportResult ==
    last.op = "write_report" =>
        /\ last.ret.ok => (last.ret.packed.ok /\ last.ret.transport = "Ok")
        /\ ~last.ret.packed.ok =>
              (~last.ret.ok /\ last.ret.err = "SerializationError" /\ last.ret.attempts = 0)
        /\ (last.ret.packed.ok /\ last.ret.transport # "Ok") =>
              (~last.ret.ok /\ last.ret.cause = last.ret.transport)
        /\ last.ret.attempts <= 1

C7_Witness ==
    /\ last.op = "write_report"
    /\ last.ret.packed.ok
    /\ last.ret.transport = "WouldBlock"
    /\ ~last.ret.ok /\ last.ret.attempts = 1

\* C8 as stated: in every step in which the protocol mode changes, the
\* operation performed is set_protocol.
C8_OnlySetProtocol ==
    [][protocol' # protocol => last'.op = "set_protocol"]_vars

\* C8: in every step in which the protocol mode changes, the operation
\* performed is set_protocol or reset.
C8_OnlySetProtocolOrReset ==
    [][protocol' # protocol => last'.op \in {"set_protocol", "reset"}]_vars

\* The mode was changed to Boot, and the reset that followed changed it back.
C8_Witness ==
    /\ prev.op = "set_protocol" /\ prev.mode = "Boot"
    /\ last.op = "reset"
    /\ protocol = "Report"

\* C9: get_idle(id) for a report id with no entry of its own is answered
\* with the current report-id 0 entry, so it observes an earlier
\* set_idle(0, v).
C9_UnknownIdFallsBack ==
    /\ (last.op = "get_idle" /\ idle[last.id] = NoEntry) => last.ret = idle[0]
    /\ (prev.op = "set_idle" /\ prev.id = 0 /\ last.op = "get_idle" /\ idle[last.id] = NoEntry)
          => last.ret = prev.val

C9_Witness ==
    /\ prev.op = "set_idle" /\ prev.id = 0 /\ prev.val = 255
    /\ last.op = "get_idle" /\ last.id # 0 /\ idle[last.id] = NoEntry
    /\ last.ret = 255

\* C10: SWITCH_GAMEPAD_REPORT_DESCRIPTOR parses to its end as a well-formed
\* report descriptor: no item runs past the end, collections are balanced,
\* and every Input or Output item has report size and count before it.
C10_DescriptorWellFormed ==
    last.op = "report_descriptor" => WellFormed(last.ret.bytes)

====
